---------------------------- MODULE Spec2Model ----------------------------
(***************************************************************************)
(* Model of src/lt.py: the three entry points of the PWL generator.        *)
(*   PSE.__init__                 script -> ladder -> channel files        *)
(*   csv_to_pwl                   sampled trace -> breakpoints + PWL(...)  *)
(*   make_ac_pwl_file_for_spice   AC parameters -> replicated ladder       *)
(*                                                                         *)
(* Numbers of the script path are fixed point.  A script field is an       *)
(* integer count of hundredths (0.01); round(float(j), 1) turns it into a  *)
(* count of tenths, so every entry of a ladder row is in tenths.           *)
(* Trace timestamps are counts of 0.2 us ticks, breakpoint times are whole *)
(* microseconds.  Strings are sequences of one-character strings.          *)
(***************************************************************************)
EXTENDS Integers, Sequences, FiniteSets, TLC

VARIABLES pc, raised,
          script, frame, times, files, period, frequency,
          df, dn, row_i, previous_value, cmd_str, f, ret,
          args, q, out

vars == <<pc, raised, script, frame, times, files, period, frequency,
          df, dn, row_i, previous_value, cmd_str, f, ret, args, q, out>>

pse_vars == <<script, frame, times>>
csv_vars == <<df, dn, row_i, previous_value, cmd_str, f, ret>>
ac_vars  == <<args, q, out>>

(***************************************************************************)
(* Bounds of the model.                                                    *)
(***************************************************************************)
MaxPhases  == 6      \* longest script, in rows (bookkeeping row included)
MaxSamples == 4      \* longest trace, in samples
MaxTick    == 8      \* latest trace timestamp, in 0.2 us ticks
MaxCycles  == 2      \* largest cycles argument

(***************************************************************************)
(* Values shared by the three paths.                                       *)
(***************************************************************************)
Bad  == -1           \* a field whose text float() rejects (a label, "x")
None == -2           \* Python's None where a number is expected
NoneStr == <<"None">>  \* Python's None where a string is expected

RECURSIVE SumTo(_, _, _)
SumTo(s, k, n) == IF n = 0 THEN 0 ELSE s[n][k] + SumTo(s, k, n - 1)

(***************************************************************************)
(* build_frame_from_script                                                 *)
(***************************************************************************)
rise_time == 1

\* round(float(j), 1) on a count of hundredths, result in tenths.  The
\* script fields of the model never end in the digit 5, so no tie arises.
Round1(h) == (h + 5) \div 10

\* float(j) raises ValueError on a field that is not numeric.
FloatOk(j) == j # Bad

\* e_list: label slot zeroed, duration slot overwritten by rise_time.
EdgeFields(row) ==
    [k \in 1..Len(row) |-> IF k = 1 THEN 0
                           ELSE IF k = 2 THEN rise_time * 100 ELSE row[k]]

\* o_list: the copy taken before the duration slot is overwritten.
SettleFields(row) ==
    [k \in 1..Len(row) |-> IF k = 1 THEN 0 ELSE row[k]]

RoundRow(fields) == [k \in 1..Len(fields) |-> Round1(fields[k])]

\* The for-loop of lines 73-82: two rows per script row, edge then settle.
ExpandScript(s) ==
    [i \in 1..2 * Len(s) |->
        IF i % 2 = 1 THEN RoundRow(EdgeFields(s[(i + 1) \div 2]))
                     ELSE RoundRow(SettleFields(s[i \div 2]))]

ScriptTimes(s) == [i \in 1..Len(s) |-> RoundRow(SettleFields(s[i]))[2]]

\* Variant: the bookkeeping phase loses both of its rows.
PopFirst_Both(fr) == Tail(Tail(fr))

\* frame.pop(0)
PopFirst(fr) == Tail(fr)

\* Variant: the row's own duration is stored, nothing is accumulated.
Accumulate_NoSum(fr) ==
    [i \in 1..Len(fr) |-> [fr[i] EXCEPT ![1] = fr[i][2]]]

\* Lines 84-87: row[0] becomes the running sum of row[1], own row included.
Accumulate(fr) ==
    [i \in 1..Len(fr) |-> [fr[i] EXCEPT ![1] = SumTo(fr, 2, i)]]

\* A row whose float() conversions all succeed (the label slot is replaced
\* by 0 before the conversion, so it never counts).
RowParses(row) == \A k \in 2..Len(row) : FloatOk(row[k])

NamedPhases == 6     \* times[5] is the last index read (line 92)

\* Variant: missing named durations read as 0 instead of raising.
build_frame_from_script_NoShape(s) ==
    IF \E i \in 1..Len(s) : ~RowParses(s[i])
    THEN [raised |-> "ValueError", frame |-> <<>>, times |-> <<>>]
    ELSE IF s = <<>>     \* pop from an empty list still raises
    THEN [raised |-> "IndexError", frame |-> <<>>, times |-> <<>>]
    ELSE [raised |-> "none",
          frame  |-> Accumulate(PopFirst(ExpandScript(s))),
          times  |-> [i \in 1..NamedPhases |->
                        IF i <= Len(s) THEN ScriptTimes(s)[i] ELSE 0]]

build_frame_from_script(s) ==
    IF \E i \in 1..Len(s) : ~RowParses(s[i])
    THEN [raised |-> "ValueError", frame |-> <<>>, times |-> <<>>]
    ELSE IF Len(s) < NamedPhases
    THEN [raised |-> "IndexError", frame |-> <<>>, times |-> <<>>]
    ELSE [raised |-> "none",
          frame  |-> Accumulate(PopFirst(ExpandScript(s))),
          times  |-> ScriptTimes(s)]

(***************************************************************************)
(* make_pwl_files_from_frame / spice_make_pwl                              *)
(***************************************************************************)
FrameColumns == <<"Time", "dt", "dac_en", "amp_sel", "rebal1", "rebal2">>

ColIndex(cols, name) == CHOOSE k \in 1..Len(cols) : cols[k] = name

\* One line per row: the Time entry with the unit suffix, then the level.
spice_make_pwl(rows, cols, column) ==
    [i \in 1..Len(rows) |->
        <<rows[i][ColIndex(cols, "Time")], "u", rows[i][ColIndex(cols, column)]>>]

make_pwl_files_from_frame(fr) ==
    [c \in {FrameColumns[k] : k \in 3..Len(FrameColumns)} |->
        spice_make_pwl(fr, FrameColumns, c)]

NoFiles == [c \in {} |-> <<>>]

(***************************************************************************)
(* Period and frequency (lines 51-52 and 191-192).                         *)
(* int() truncates toward zero; unit is the number of period units in one  *)
(* microsecond (10 for tenths, 1 for whole microseconds).                  *)
(***************************************************************************)
Million == 1000000

IntQuot(a, b) == IF b > 0 THEN a \div b ELSE -(a \div (-b))

\* Variant: round() in place of int().
Frequency_Rounded(p, unit) ==
    IF p = 0 THEN 1 ELSE (2 * Million * unit + p) \div (2 * p)

Frequency(p, unit) == IF p = 0 THEN 1 ELSE IntQuot(Million * unit, p)

(***************************************************************************)
(* Inputs of the script path.                                              *)
(***************************************************************************)
ScriptRows ==
    { <<Bad, 0,     0,   0,   0,   0>>,      \* start,0,0,0,0,0
      <<Bad, 4,     100, 100, 0,   0>>,      \* 0.04 us
      <<Bad, 6,     100, 0,   0,   0>>,      \* 0.06 us
      <<Bad, 24000, 0,   0,   100, 100>>,    \* 240 us
      <<Bad, Bad,   0,   0,   0,   0>>,      \* a duration that is no number
      <<Bad, 6,     0,   Bad, 0,   0>> }     \* a level that is no number

Scripts == UNION { [1..n -> ScriptRows] : n \in 0..MaxPhases }

InitCommon ==
    /\ raised = "none"
    /\ script = <<>> /\ frame = <<>> /\ times = <<>> /\ files = NoFiles
    /\ period = None /\ frequency = None
    /\ df = <<>> /\ dn = <<>> /\ row_i = 0 /\ previous_value = None
    /\ cmd_str = NoneStr /\ f = <<>> /\ ret = NoneStr
    /\ args = <<>> /\ q = <<>> /\ out = <<>>

Init == InitCommon /\ pc = "idle"

(***************************************************************************)
(* PSE.__init__, one action per statement.                                 *)
(***************************************************************************)
PSE_Call ==
    /\ pc = "idle"
    /\ \E s \in Scripts : script' = s
    /\ pc' = "pse_build"
    /\ UNCHANGED <<raised, frame, times, files, period, frequency>>
    /\ UNCHANGED csv_vars /\ UNCHANGED ac_vars

PSE_Build ==
    /\ pc = "pse_build"
    /\ LET r == build_frame_from_script(script) IN
         /\ raised' = r.raised
         /\ frame' = r.frame
         /\ times' = r.times
         /\ pc' = IF r.raised = "none" THEN "pse_files" ELSE "pse_raised"
    /\ UNCHANGED <<script, files, period, frequency>>
    /\ UNCHANGED csv_vars /\ UNCHANGED ac_vars

PSE_Files ==
    /\ pc = "pse_files"
    /\ files' = make_pwl_files_from_frame(frame)
    /\ pc' = "pse_period"
    /\ UNCHANGED <<raised, period, frequency>>
    /\ UNCHANGED pse_vars /\ UNCHANGED csv_vars /\ UNCHANGED ac_vars

PSE_Period ==
    /\ pc = "pse_period"
    /\ period' = times[2] + times[3] + times[4] + times[5]
    /\ frequency' = Frequency(period', 10)
    /\ pc' = "pse_done"
    /\ UNCHANGED <<raised, files>>
    /\ UNCHANGED pse_vars /\ UNCHANGED csv_vars /\ UNCHANGED ac_vars

(***************************************************************************)
(* Strings: '{x:.0f}' formatting of a whole number, and concatenation.     *)
(***************************************************************************)
DigitChars == <<"0", "1", "2", "3", "4", "5", "6", "7", "8", "9">>

RECURSIVE Fmt0f(_)
Fmt0f(n) == IF n < 10 THEN <<DigitChars[n + 1]>>
            ELSE Fmt0f(n \div 10) \o <<DigitChars[(n % 10) + 1]>>

\* part_1 of lines 25 and 30: f'{t:.0f}u {v:.0f}'
Part1(t, v) == Fmt0f(t) \o <<"u", " ">> \o Fmt0f(v)

\* part_2 of line 31: f'{t + 1:.0f}u  {v:.0f}' (two blanks)
Part2(t, v) == Fmt0f(t + 1) \o <<"u", " ", " ">> \o Fmt0f(v)

(***************************************************************************)
(* csv_to_pwl                                                              *)
(***************************************************************************)
max_val == 3

\* round(Time * 1e6) for a timestamp given in 0.2 us ticks: tick/5 rounded
\* to the nearest whole microsecond (fifths never tie).
RoundUs(tick) == (2 * tick + 5) \div 10

\* df[column].diff() != 0: NaN for the first sample, which compares unequal.
DiffNonZero(d, i) == i = 1 \/ d[i].v # d[i - 1].v

\* (dn[column] != 0) * max_val
MapLevel(v) == IF v # 0 THEN max_val ELSE 0

RECURSIVE SelectChanges(_, _)
SelectChanges(d, i) ==
    IF i > Len(d) THEN <<>>
    ELSE (IF DiffNonZero(d, i)
          THEN << <<RoundUs(d[i].Time), MapLevel(d[i].v)>> >>
          ELSE <<>>) \o SelectChanges(d, i + 1)

\* Lines 14-17: the frame of detected changes, (time in us, mapped level).
ChangeFrame(d) == SelectChanges(d, 1)

Ticks == 0..MaxTick
RawValues == {0, 1, 2}

\* Traces with strictly ascending timestamps.
Traces ==
    UNION { { d \in [1..n -> [Time : Ticks, v : RawValues]] :
                \A i \in 1..n - 1 : d[i].Time < d[i + 1].Time }
            : n \in 0..MaxSamples }

CSV_Call ==
    /\ pc = "idle"
    /\ \E d \in Traces : df' = d
    /\ pc' = "csv_open"
    /\ UNCHANGED <<raised, files, period, frequency>>
    /\ UNCHANGED <<dn, row_i, previous_value, cmd_str, f, ret>>
    /\ UNCHANGED pse_vars /\ UNCHANGED ac_vars

\* Lines 12-20: open the file, build dn, clear the two accumulators.
CSV_Detect ==
    /\ pc = "csv_open"
    /\ f' = <<>>
    /\ dn' = ChangeFrame(df)
    /\ previous_value' = None
    /\ cmd_str' = NoneStr
    /\ row_i' = 1
    /\ pc' = "csv_loop"
    /\ UNCHANGED <<raised, files, period, frequency, df, ret>>
    /\ UNCHANGED pse_vars /\ UNCHANGED ac_vars

\* Lines 21-37: one iteration of the loop over dn.
CSV_Row ==
    /\ pc = "csv_loop"
    /\ row_i <= Len(dn)
    /\ LET row == dn[row_i] IN
         IF row[1] = 0
         THEN /\ cmd_str' = <<"P", "W", "L", "(">> \o Part1(row[1], row[2]) \o <<" ">>
              /\ f' = Append(f, Part1(row[1], row[2]))
              /\ previous_value' = row[2]
              /\ row_i' = row_i + 1
              /\ UNCHANGED <<pc, raised>>
         ELSE IF previous_value = None
         THEN \* format(None, '.0f') on line 30
              /\ raised' = "TypeError"
              /\ pc' = "csv_raised"
              /\ UNCHANGED <<cmd_str, f, previous_value, row_i>>
         ELSE /\ cmd_str' = cmd_str \o Part1(row[1], previous_value)
                                    \o <<" ">> \o Part2(row[1], row[2])
              /\ f' = f \o <<Part1(row[1], previous_value), Part2(row[1], row[2])>>
              /\ previous_value' = row[2]
              /\ row_i' = row_i + 1
              /\ UNCHANGED <<pc, raised>>
    /\ UNCHANGED <<files, period, frequency, df, dn, ret>>
    /\ UNCHANGED pse_vars /\ UNCHANGED ac_vars

\* Lines 39-40: close the file and return cmd_str + ')'.
CSV_Return ==
    /\ pc = "csv_loop"
    /\ row_i > Len(dn)
    /\ IF cmd_str = NoneStr
       THEN /\ raised' = "TypeError"      \* None + ')'
            /\ pc' = "csv_raised"
            /\ UNCHANGED ret
       ELSE /\ ret' = cmd_str \o <<")">>
            /\ pc' = "csv_done"
            /\ UNCHANGED raised
    /\ UNCHANGED <<files, period, frequency, df, dn, row_i, previous_value, cmd_str, f>>
    /\ UNCHANGED pse_vars /\ UNCHANGED ac_vars

(***************************************************************************)
(* make_ac_pwl_file_for_spice                                              *)
(***************************************************************************)
NaN == -3            \* the missing value shift(-1) leaves behind

AcColumns == <<"Time", "dt", "dac_en", "amp_sel", "rebal1", "rebal2",
               "ie_en", "cap_byp", "pw_amp", "rpw_amp">>

Grid == 15           \* durations are cut down to multiples of 15 us

\* x - x % 15 (Python's % is never negative for a positive modulus).
Quantize(x) == x - (x % Grid)

\* Lines 189-190 in integers: 1e6/f - used cut down to the grid, that is
\* 15 * floor((1e6 - f*used) / (15*f)) for f > 0.
Dt1(freq, used) == Grid * ((Million - freq * used) \div (Grid * freq))

\* Lines 195-202: the literal phase table, six entries per row.
AcData(pw, dt0, rpw, dt1) ==
    << <<0, 0,   0, 0, 0, 0>>,
       <<0, pw,  1, 1, 0, 0>>,
       <<0, dt0, 0, 0, 0, 0>>,
       <<0, rpw, 1, 0, 0, 0>>,
       <<0, dt1, 0, 0, 1, 1>> >>

\* pd.DataFrame(data, columns=columns): every row of data must have one
\* entry per column name, otherwise the constructor raises ValueError.
DataFrameOk(data, cols) == \A i \in 1..Len(data) : Len(data[i]) = Len(cols)

\* Line 204: dfs['Time'] = dfs['dt'].cumsum()
CumSumTime(rows) ==
    [i \in 1..Len(rows) |-> [rows[i] EXCEPT ![1] = SumTo(rows, 2, i)]]

\* Lines 206-213: rows 2i and 2i+1 are copies of row i, the second one a
\* time step dt = 1 later.
TwoRows(rows) ==
    [j \in 1..2 * Len(rows) |->
        IF j % 2 = 1 THEN rows[(j + 1) \div 2]
        ELSE [rows[j \div 2] EXCEPT ![1] = @ + 1]]

ShiftedColumns == {"amp_sel", "dac_en", "rebal1", "rebal2", "ie_en", "cap_byp"}

\* Lines 215-220: column.shift(-1) on each shifted column.
ShiftBack(rows, cols) ==
    [i \in 1..Len(rows) |->
        [k \in 1..Len(rows[i]) |->
            IF cols[k] \in ShiftedColumns
            THEN (IF i < Len(rows) THEN rows[i + 1][k] ELSE NaN)
            ELSE rows[i][k]]]

\* Line 221: df.dropna()
DropNa(rows) ==
    SelectSeq(rows, LAMBDA r : \A k \in 1..Len(r) : r[k] # NaN)

\* Lines 223-227: dn is a copy that moves on by period + 1 per cycle and is
\* appended to df each time.
RECURSIVE Replicate(_, _, _, _)
Replicate(base, copy, per, cycles) ==
    IF cycles = 0 THEN base
    ELSE LET moved == [i \in 1..Len(copy) |->
                          [copy[i] EXCEPT ![1] = @ + per + 1]]
         IN  Replicate(base \o moved, moved, per, cycles - 1)

\* Lines 229-230: one file for each of columns[2..9].
AcFiles(rows) ==
    [c \in {AcColumns[k] : k \in 3..Len(AcColumns)} |->
        spice_make_pwl(rows, AcColumns, c)]

AcArgs ==
    [pulsewidth_us : {0, 14, 240}, ipi : {0, 60, 70}, rpr : {0, 1, 2},
     requested_frequency : {0, 500, 666, 100000}, cycles : 0..MaxCycles]

AC_Call ==
    /\ pc = "idle"
    /\ \E a \in AcArgs : args' = a
    /\ pc' = "ac_params"
    /\ UNCHANGED <<raised, files, period, frequency, q, out>>
    /\ UNCHANGED pse_vars /\ UNCHANGED csv_vars

\* Lines 181-193: amplitudes, quantized durations, period and frequency.
AC_Params ==
    /\ pc = "ac_params"
    /\ IF args.rpr = 0 \/ args.requested_frequency = 0
       THEN \* amplitude_ua / rpr (line 182) or 1E6 / requested_frequency
            /\ raised' = "ZeroDivisionError"
            /\ pc' = "ac_raised"
            /\ UNCHANGED <<q, period, frequency>>
       ELSE LET pw  == Quantize(args.pulsewidth_us)
                rpw == pw * args.rpr
                dt0 == Quantize(args.ipi)
                dt1 == Dt1(args.requested_frequency, pw + dt0 + rpw)
            IN  /\ q' = [pw |-> pw, rpw |-> rpw, dt0 |-> dt0, dt1 |-> dt1]
                /\ period' = pw + dt0 + rpw + dt1
                /\ frequency' = Frequency(period', 1)
                /\ pc' = "ac_table"
                /\ UNCHANGED raised
    /\ UNCHANGED <<files, args, out>>
    /\ UNCHANGED pse_vars /\ UNCHANGED csv_vars

\* Lines 195-232: build the table, expand, shift, replicate, write.
AC_Ladder ==
    /\ pc = "ac_table"
    /\ LET data == AcData(q.pw, q.dt0, q.rpw, q.dt1) IN
         IF ~DataFrameOk(data, AcColumns)
         THEN /\ raised' = "ValueError"
              /\ pc' = "ac_raised"
              /\ UNCHANGED <<out, files>>
         ELSE LET dfs  == CumSumTime(data)
                  base == DropNa(ShiftBack(TwoRows(dfs), AcColumns))
                  all  == Replicate(base, base, period, args.cycles)
              IN  /\ out' = all
                  /\ files' = AcFiles(all)
                  /\ pc' = "ac_done"
                  /\ UNCHANGED raised
    /\ UNCHANGED <<period, frequency, args, q>>
    /\ UNCHANGED pse_vars /\ UNCHANGED csv_vars

Next == PSE_Call \/ PSE_Build \/ PSE_Files \/ PSE_Period
        \/ CSV_Call \/ CSV_Detect \/ CSV_Row \/ CSV_Return
        \/ AC_Call \/ AC_Params \/ AC_Ladder

Spec == Init /\ [][Next]_vars

(***************************************************************************)
(* Properties of the script path.                                          *)
(***************************************************************************)
Returned == pc \in {"pse_files", "pse_period", "pse_done"}

\* Position of a script row's two rows in the returned ladder.
EdgeAt(p)   == 2 * p - 2
SettleAt(p) == 2 * p - 1

NonDecreasing(fr) == \A i \in 1..Len(fr) - 1 : fr[i][1] <= fr[i + 1][1]

Levels(row) == SubSeq(row, 3, Len(row))

Built == pc \in {"pse_files", "pse_period", "pse_done", "pse_raised"}

AllParse(s) == \A i \in 1..Len(s) : \A k \in 2..Len(s[i]) : s[i][k] # Bad

\* Settle rows sit at the odd positions of the returned ladder.
SettleRows(fr) == {i \in 1..Len(fr) : i % 2 = 1}

\* C2 as stated: a script of the bookkeeping phase plus one real phase is
\* expanded without error into a ladder with exactly one settle row, and the
\* first row of any returned ladder carries the levels and the duration of
\* the first real phase.
C2_Original ==
    /\ (Built /\ Len(script) = 2 /\ AllParse(script)) =>
          /\ raised = "none"
          /\ Cardinality(SettleRows(frame)) = 1
    /\ Returned =>
          /\ Levels(frame[1]) = [k \in 1..4 |-> Round1(script[2][k + 2])]
          /\ frame[1][2] = Round1(script[2][2])

\* C2 amended: a ladder is returned only for scripts of at least six rows
\* (a two-row script raises IndexError); a returned ladder has 2n-1 rows for
\* n script rows, its first row is the settle row of the bookkeeping phase
\* (that phase's levels and duration), and the edge row of the first real
\* phase, with the rise time as duration, comes second.
C2_BookkeepingRowKept ==
    /\ (Built /\ Len(script) < NamedPhases /\ AllParse(script)) =>
          raised = "IndexError"
    /\ Returned =>
          /\ Len(script) >= NamedPhases
          /\ Len(frame) = 2 * Len(script) - 1
          /\ Cardinality(SettleRows(frame)) = Len(script)
          /\ Levels(frame[1]) = [k \in 1..4 |-> Round1(script[1][k + 2])]
          /\ frame[1][2] = Round1(script[1][2])
          /\ Levels(frame[2]) = [k \in 1..4 |-> Round1(script[2][k + 2])]
          /\ frame[2][2] = 10 * rise_time

C2_Witness ==
    /\ pc = "pse_done"
    /\ Levels(frame[1]) # Levels(frame[2])
    /\ script[1][2] # script[2][2]

\* C8: a script that is too short or holds a field that is no number makes
\* the run fail: an error is raised, no ladder is returned and no channel
\* file has been written.
C8_FailFast ==
    (Built /\ (Len(script) < NamedPhases \/ ~AllParse(script))) =>
        /\ pc = "pse_raised"
        /\ raised \in {"IndexError", "ValueError"}
        /\ frame = <<>>
        /\ files = NoFiles

C8_Witness ==
    /\ pc = "pse_raised" /\ raised = "IndexError"
    /\ Len(script) = NamedPhases - 1

(***************************************************************************)
(* Period and frequency.                                                   *)
(***************************************************************************)
AcComputed == pc \in {"ac_table", "ac_done"} \/ (pc = "ac_raised" /\ q # <<>>)

\* fr is 1e6/period cut toward zero (period >= 0 in every reachable state).
IsTruncated(fr, p, unit) ==
    IF p = 0 THEN fr = 1
    ELSE p > 0 /\ fr * p <= Million * unit /\ Million * unit < (fr + 1) * p

\* fr is 1e6/period rounded to the nearest integer.
IsNearest(fr, p, unit) ==
    IF p = 0 THEN fr = 1
    ELSE p > 0 /\ 2 * fr * p - p <= 2 * Million * unit
               /\ 2 * Million * unit <= 2 * fr * p + p

ScriptPeriod ==
    Round1(script[2][2]) + Round1(script[3][2])
        + Round1(script[4][2]) + Round1(script[5][2])

\* C3 as stated: period is the sum of the four named durations, frequency
\* is 1 for period 0 and otherwise 1e6/period rounded to the nearest
\* integer, and no division by zero is raised at period 0.
C3_Original ==
    /\ pc = "pse_done" =>
          period = ScriptPeriod /\ IsNearest(frequency, period, 10)
    /\ AcComputed =>
          /\ period = q.pw + q.dt0 + q.rpw + q.dt1
          /\ IsNearest(frequency, period, 1)
    /\ period = 0 => raised # "ZeroDivisionError"

\* C3 amended: period is the sum of the four named durations (trailing gap
\* and rise-time pads excluded), frequency is 1 for period 0 and otherwise
\* 1e6/period cut to an integer toward zero; the frequency computation
\* raises no division by zero.  make_ac_pwl_file_for_spice raises
\* ZeroDivisionError before it has a period when rpr or requested_frequency
\* is 0.
C3_FrequencyTruncated ==
    /\ pc = "pse_done" =>
          period = ScriptPeriod /\ IsTruncated(frequency, period, 10)
    /\ AcComputed =>
          /\ period = q.pw + q.dt0 + q.rpw + q.dt1
          /\ q.pw % Grid = 0 /\ q.pw <= args.pulsewidth_us
          /\ args.pulsewidth_us < q.pw + Grid
          /\ IsTruncated(frequency, period, 1)
    /\ period = 0 => raised # "ZeroDivisionError"
    /\ raised = "ZeroDivisionError" =>
          /\ args.rpr = 0 \/ args.requested_frequency = 0
          /\ period = None

C3_Witness ==
    /\ pc = "pse_done" /\ period > 0
    /\ IsTruncated(frequency, period, 10)
    /\ ~IsNearest(frequency, period, 10)

(***************************************************************************)
(* A breakpoint reader: whitespace-separated tokens, '<digits>u' is a time *)
(* and '<digits>' a value; any other token reads as Bad.                   *)
(***************************************************************************)
RECURSIVE SplitFrom(_, _, _)
SplitFrom(str, i, cur) ==
    IF i > Len(str) THEN (IF cur = <<>> THEN <<>> ELSE <<cur>>)
    ELSE IF str[i] = " "
         THEN (IF cur = <<>> THEN <<>> ELSE <<cur>>) \o SplitFrom(str, i + 1, <<>>)
         ELSE SplitFrom(str, i + 1, Append(cur, str[i]))

Tokens(str) == SplitFrom(str, 1, <<>>)

DigitOf(c) == CHOOSE d \in 0..9 : DigitChars[d + 1] = c

IsDigit(c) == \E d \in 0..9 : DigitChars[d + 1] = c

RECURSIVE ReadDigits(_, _)
ReadDigits(tok, n) ==
    IF n = 0 THEN 0 ELSE 10 * ReadDigits(tok, n - 1) + DigitOf(tok[n])

ReadValue(tok) ==
    IF tok # <<>> /\ \A i \in 1..Len(tok) : IsDigit(tok[i])
    THEN ReadDigits(tok, Len(tok)) ELSE Bad

ReadTime(tok) ==
    IF Len(tok) >= 2 /\ tok[Len(tok)] = "u"
    THEN ReadValue(SubSeq(tok, 1, Len(tok) - 1)) ELSE Bad

\* Tokens read as alternating time and value; a token left over at the end
\* is a time without a value.
ReadPairs(toks) ==
    [i \in 1..(Len(toks) + 1) \div 2 |->
        <<ReadTime(toks[2 * i - 1]),
          IF 2 * i <= Len(toks) THEN ReadValue(toks[2 * i]) ELSE Bad>>]

\* The breakpoints of the channel file, one per line.
FileBreakpoints(lines) ==
    [i \in 1..Len(lines) |-> ReadPairs(Tokens(lines[i]))[1]]

\* The breakpoints between 'PWL(' and ')' of the returned expression.
InlineBreakpoints(str) == ReadPairs(Tokens(SubSeq(str, 5, Len(str) - 1)))

(***************************************************************************)
(* Properties of the trace path.                                           *)
(***************************************************************************)
CsvEnded == pc \in {"csv_done", "csv_raised"}

\* The breakpoints the changes ch call for: one for the first change, then
\* (t, previous level) and (t + 1, new level) for each later change.
RECURSIVE LaterBreakpoints(_, _)
LaterBreakpoints(ch, i) ==
    IF i > Len(ch) THEN <<>>
    ELSE << <<ch[i][1], ch[i - 1][2]>>, <<ch[i][1] + 1, ch[i][2]>> >>
             \o LaterBreakpoints(ch, i + 1)

ExpectedBreakpoints(ch) == << <<ch[1][1], ch[1][2]>> >> \o LaterBreakpoints(ch, 2)

\* C4: for a trace with ascending timestamps, whatever the first one is, the
\* call completes and the file holds one breakpoint for the first change and
\* the pair (t, previous level), (t + 1, new level) for every later change,
\* 2k-1 breakpoints for k changes.
C4_Claim ==
    (CsvEnded /\ Len(df) >= 1) =>
        /\ pc = "csv_done"
        /\ FileBreakpoints(f) = ExpectedBreakpoints(ChangeFrame(df))
        /\ Len(f) = 2 * Len(ChangeFrame(df)) - 1

\* C5: the breakpoint times written to the file never decrease from one
\* line to the next.
C5_Claim ==
    \A i \in 1..Len(f) - 1 :
        FileBreakpoints(f)[i][1] <= FileBreakpoints(f)[i + 1][1]

\* C9: the returned expression, read as alternating time and value tokens,
\* lists exactly the breakpoints written to the channel file.
C9_Claim ==
    pc = "csv_done" => InlineBreakpoints(ret) = FileBreakpoints(f)

(***************************************************************************)
(* Properties of the replicated ladder.                                    *)
(***************************************************************************)
\* The call got past the parameter block (lines 181-193) and has ended.
AcEnded == pc = "ac_done" \/ (pc = "ac_raised" /\ q # <<>>)

BaseLen == Len(out) \div (args.cycles + 1)

Burst(k) == SubSeq(out, k * BaseLen + 1, (k + 1) * BaseLen)

\* C6: the output is the base ladder followed, for k = 1..cycles, by a copy
\* of the base ladder moved on by k*(period+1) with unchanged levels.
C6_Claim ==
    AcEnded =>
        /\ pc = "ac_done"
        /\ BaseLen > 0 /\ Len(out) = (args.cycles + 1) * BaseLen
        /\ \A k \in 0..args.cycles : \A i \in 1..BaseLen :
              Burst(k)[i] = [out[i] EXCEPT ![1] = @ + k * (period + 1)]

\* C7: consecutive bursts share no timestamp and the rows are in ascending
\* time order across the burst boundary.
C7_Claim ==
    AcEnded =>
        /\ pc = "ac_done"
        /\ \A k \in 0..args.cycles - 1 :
              /\ \A i, j \in 1..BaseLen : Burst(k)[i][1] # Burst(k + 1)[j][1]
              /\ Burst(k)[BaseLen][1] < Burst(k + 1)[1][1]

\* The ten rows of the two-rows-per-phase expansion, before the shift.
Unshifted == TwoRows(CumSumTime(AcData(q.pw, q.dt0, q.rpw, q.dt1)))

\* C10: the base ladder has 9 rows, a shifted channel's level at row i is
\* the level of row i+1 before the shift, and no serialized row carries an
\* undefined level.
C10_Claim ==
    AcEnded =>
        /\ pc = "ac_done"
        /\ BaseLen = 9
        /\ \A i \in 1..BaseLen : \A k \in 3..Len(out[i]) :
              /\ out[i][k] # NaN
              /\ AcColumns[k] \in ShiftedColumns => out[i][k] = Unshifted[i + 1][k]
        /\ \A c \in DOMAIN files : \A i \in 1..Len(files[c]) : files[c][i][3] # NaN

=============================================================================
